---- MODULE Spec2Model ----
(***************************************************************************)
(* Model of the debounced autosave of fizzy-bubbles-tracker:               *)
(*   - debounce (src/src/util.ts) as used by the word counter page and by  *)
(*     the per-record list save of the bond page,                          *)
(*   - the add / edit / remove handlers of the bond page's data table,     *)
(*   - findLastIndex (src/src/util.ts).                                    *)
(*                                                                         *)
(* Time is a discrete clock `now`.  A setTimeout callback runs when its    *)
(* delay has elapsed: the clock does not advance past a due timer and a    *)
(* due callback runs before any handler invoked at that same instant.      *)
(***************************************************************************)
EXTENDS Integers, Sequences, FiniteSets

(* ---------------------------- bounds ---------------------------------- *)
W == 2            \* debounce window, in clock ticks
MaxTime == 5      \* the clock stops here
MaxCalls == 2     \* scheduleWrite calls per behaviour
NumKeys == 2      \* distinct keys / record identities
NumPatches == 2   \* distinct patch values
MaxLen == 3       \* findLastIndex: longest array
MaxOps == 3       \* bond page: handler invocations per behaviour
MaxRows == 1      \* bond page: rows loaded at start

Keys == 1..NumKeys
Patches == 1..NumPatches

VARIABLES
    now,        \* the clock
    timers,     \* the host's table of armed timeouts
    timeoutId,  \* per debounced function: the closure variable timeoutId
    nextId,     \* the id the next setTimeout returns
    repo,       \* word counter: the repository is available
    text,       \* word counter: the text state, per key
    calls,      \* history: the scheduleWrite calls made
    writes,     \* history: the invocations of the wrapped function
    bondLogs,   \* bond page: the in-memory list
    db,         \* bond page: ids of the rows in the store
    pendingAdd, \* bond page: ids of creates issued and not yet resolved
    nextRowId,  \* bond page: the id the next create is given
    removedPending, \* history: ids removed while a write was pending
    lastOp,     \* history: the last handler or store operation
    opCount,    \* history: handler invocations so far
    fl_array, fl_target, fl_i, fl_result, fl_pc   \* findLastIndex

debVars == <<now, timers, timeoutId, nextId, repo, text, calls, writes>>
listVars == <<bondLogs, db, pendingAdd, nextRowId, removedPending, lastOp, opCount>>
findVars == <<fl_array, fl_target, fl_i, fl_result, fl_pc>>
vars == <<debVars, listVars, findVars>>

(* ------------------------ debounce (util.ts) -------------------------- *)
NoTimer == 0      \* timeoutId before the first call: undefined

\* setTimeout(() => fn.apply(this, args), ms): arms a timer holding args
SetTimeout(ts, id, k, args, due) ==
    ts \cup {[id |-> id, key |-> k, args |-> args, due |-> due]}

\* clearTimeout(timeoutId): disarms that timer; unknown or fired ids are ignored
ClearTimeoutNone(ts, id) == ts
ClearTimeoutAll(ts, id) == {}
ClearTimeout(ts, id) == {t \in ts : t.id # id}

\* the body of the function debounce returns: clear, then arm
DebouncedSetThenClear(ts, old, new, k, args, due) ==
    ClearTimeout(SetTimeout(ts, new, k, args, due), new)
Debounced(ts, old, new, k, args, due) ==
    SetTimeout(ClearTimeout(ts, old), new, k, args, due)

\* a timer is due
Due(t) == t.due <= now
NoneDue == \A t \in timers : ~Due(t)

\* what is left armed once the callback of t has run and its save settled:
\* repo.save(...).then() has no rejection handler, nothing is re-armed
AfterSaveRetry(ts, t, res) ==
    IF res = "rejected" THEN (ts \ {t}) \cup {[t EXCEPT !.due = t.due + W]}
    ELSE ts \ {t}
AfterSave(ts, t, res) == ts \ {t}

\* the text state once the callback has run: setText(newText) stays
TextAfter(old, new, res) == new

\* one debounced function, with its own timeoutId, per key
ClosuresFor(S) == [k \in S |-> NoTimer]

DebInit ==
    /\ now = 0
    /\ timers = {}
    /\ timeoutId = ClosuresFor(Keys)
    /\ nextId = 1
    /\ repo \in BOOLEAN
    /\ text = [k \in Keys |-> 0]
    /\ calls = <<>>
    /\ writes = <<>>

\* scheduleWrite(k, patch): the debounced function of key k is called
ScheduleWrite(k, p) ==
    /\ Len(calls) < MaxCalls
    /\ NoneDue
    /\ timers' = Debounced(timers, timeoutId[k], nextId, k, p, now + W)
    /\ timeoutId' = [timeoutId EXCEPT ![k] = nextId]
    /\ nextId' = nextId + 1
    /\ calls' = Append(calls, [key |-> k, patch |-> p, at |-> now])
    /\ UNCHANGED <<now, repo, text, writes>>

\* the timer callback: fn.apply(this, args) with fn of the word counter
Flush(t, res) ==
    /\ t \in timers
    /\ Due(t)
    /\ timers' = AfterSave(timers, t, res)
    /\ text' = [text EXCEPT ![t.key] = TextAfter(text[t.key], t.args, res)]
    /\ writes' = Append(writes, [key |-> t.key, patch |-> t.args, at |-> now, res |-> res])
    /\ UNCHANGED <<now, timeoutId, nextId, repo, calls>>

FlushNoRepo == \E t \in timers : ~repo /\ Flush(t, "norepo")
FlushSaved == \E t \in timers : repo /\ Flush(t, "ok")
FlushRejected == \E t \in timers : repo /\ Flush(t, "rejected")

Tick ==
    /\ now < MaxTime
    /\ NoneDue
    /\ now' = now + 1
    /\ UNCHANGED <<timers, timeoutId, nextId, repo, text, calls, writes>>

ListIdle ==
    /\ bondLogs = <<>>
    /\ db = {}
    /\ pendingAdd = {}
    /\ nextRowId = 1
    /\ removedPending = {}
    /\ lastOp = [op |-> "none", id |-> 0, prop |-> "none", value |-> 0,
                 found |-> FALSE, result |-> "ok"]
    /\ opCount = 0

FindIdle ==
    /\ fl_array = <<>>
    /\ fl_target = 0
    /\ fl_i = 0
    /\ fl_result = 0
    /\ fl_pc = "idle"

InitDebounce == DebInit /\ ListIdle /\ FindIdle

NextDebounce ==
    \/ (\E k \in Keys, p \in Patches : ScheduleWrite(k, p)) /\ UNCHANGED <<listVars, findVars>>
    \/ FlushNoRepo /\ UNCHANGED <<listVars, findVars>>
    \/ FlushSaved /\ UNCHANGED <<listVars, findVars>>
    \/ FlushRejected /\ UNCHANGED <<listVars, findVars>>
    \/ Tick /\ UNCHANGED <<listVars, findVars>>

SpecDebounce == InitDebounce /\ [][NextDebounce]_vars

(* ------------------- properties of the debounced write ---------------- *)
CallsOf(k) == SelectSeq(calls, LAMBDA c : c.key = k)
WritesOf(k) == SelectSeq(writes, LAMBDA w : w.key = k)
PendingOf(k) == {t \in timers : t.key = k}
LastOf(s) == s[Len(s)]
GapsLess(cs) == \A j \in 1..(Len(cs) - 1) : cs[j + 1].at - cs[j].at < W
GapsAtLeast(cs) == \A j \in 1..(Len(cs) - 1) : cs[j + 1].at - cs[j].at >= W

\* C1: calls on one key, each less than W after the previous one, lead to
\* exactly one invocation of the wrapped function; it happens no sooner
\* than W after the final call and carries the final call's arguments.
C1_BurstOneWrite ==
    \A k \in Keys :
        LET cs == CallsOf(k)
            ws == WritesOf(k)
        IN (cs # <<>> /\ GapsLess(cs)) =>
              /\ Len(ws) <= 1
              /\ \A i \in 1..Len(ws) :
                    /\ ws[i].patch = LastOf(cs).patch
                    /\ ws[i].at >= LastOf(cs).at + W
              /\ (now > LastOf(cs).at + W => Len(ws) = 1)

C1_Witness ==
    \E k \in Keys :
        LET cs == CallsOf(k)
            ws == WritesOf(k)
        IN /\ Len(cs) >= 2
           /\ GapsLess(cs)
           /\ cs[1].at < cs[2].at
           /\ cs[1].patch # LastOf(cs).patch
           /\ Len(ws) = 1

C4_OnePendingState ==
    \A k \in Keys :
        /\ Cardinality(PendingOf(k)) <= 1
        /\ \A t \in PendingOf(k) :
              /\ CallsOf(k) # <<>>
              /\ t.args = LastOf(CallsOf(k)).patch
              /\ t.due = LastOf(CallsOf(k)).at + W
C4_OnePendingStep ==
    \A k \in Keys :
        /\ (PendingOf(k) # {} /\ Len(CallsOf(k))' > Len(CallsOf(k)))
              => Cardinality(PendingOf(k)') = 1
        /\ (Len(WritesOf(k))' > Len(WritesOf(k))) => PendingOf(k)' = {}
C4_OnePending == [](C4_OnePendingState) /\ [][C4_OnePendingStep]_vars

C4_Witness ==
    \E k \in Keys :
        /\ Len(CallsOf(k)) >= 2
        /\ CallsOf(k)[1].patch # CallsOf(k)[2].patch
        /\ CallsOf(k)[1].at < CallsOf(k)[2].at
        /\ WritesOf(k) = <<>>
        /\ Cardinality(PendingOf(k)) = 1

\* C5: calls on one key, each at least W after the previous one, are each
\* followed by their own invocation of the wrapped function, with that
\* call's arguments and in call order.
C5_OneWritePerCall ==
    \A k \in Keys :
        LET cs == CallsOf(k)
            ws == WritesOf(k)
        IN GapsAtLeast(cs) =>
              /\ Len(ws) <= Len(cs)
              /\ \A i \in 1..Len(ws) : ws[i].patch = cs[i].patch
              /\ \A j \in 1..Len(cs) :
                    (now > cs[j].at + W \/ (now >= cs[j].at + W /\ NoneDue))
                        => Len(ws) >= j

C5_Witness ==
    \E k \in Keys :
        LET cs == CallsOf(k)
            ws == WritesOf(k)
        IN /\ Len(cs) >= 2
           /\ GapsAtLeast(cs)
           /\ cs[2].at = cs[1].at + W
           /\ cs[1].patch # cs[2].patch
           /\ Len(ws) = Len(cs)

\* C9: a rejected save is not retried and does not reach the caller: every
\* invocation of the wrapped function answers its own call, made W earlier,
\* no call is answered twice, the text state keeps the value of the latest
\* invocation whatever its outcome, and a call itself only arms the timer.
C9_NoRetryState ==
    /\ \A i \in 1..Len(writes) :
          /\ \E j \in 1..Len(calls) :
                /\ calls[j].key = writes[i].key
                /\ calls[j].patch = writes[i].patch
                /\ calls[j].at + W = writes[i].at
          /\ \A j \in 1..Len(writes) :
                (writes[j].key = writes[i].key /\ writes[j].at = writes[i].at) => j = i
    /\ \A k \in Keys : Len(WritesOf(k)) <= Len(CallsOf(k))
    /\ \A k \in Keys : WritesOf(k) # <<>> => text[k] = LastOf(WritesOf(k)).patch
C9_NoRetryStep ==
    calls' # calls => (writes' = writes /\ text' = text /\ Len(calls') = Len(calls) + 1)
C9_FireAndForget == [](C9_NoRetryState) /\ [][C9_NoRetryStep]_vars

C9_Witness ==
    \E i \in 1..Len(writes) :
        /\ writes[i].res = "rejected"
        /\ now > writes[i].at + W
        /\ text[writes[i].key] = writes[i].patch
        /\ Len(WritesOf(writes[i].key)) = 1
        /\ \E j \in 1..Len(calls) : calls[j].at >= writes[i].at

(* ------------------- bond page: add / edit / remove ------------------- *)
RowIds == 1..(MaxRows + MaxOps)
Props == {"value", "pokemon"}
FieldVals == 0..1
NewLog(id) == [id |-> id, value |-> 0, pokemon |-> 1]

\* bondLogs.indexOf(log): first position of log, from 0; -1 when absent
IndexOf(list, log) ==
    IF \E i \in 1..Len(list) : list[i] = log
    THEN (CHOOSE i \in 1..Len(list) :
              list[i] = log /\ \A j \in 1..(i - 1) : list[j] # log) - 1
    ELSE -1

\* bondLogsHandler.setItemProp(index, prop, value): index -1 names no item
SetItemPropAll(list, index, prop, value) ==
    [i \in 1..Len(list) |-> [list[i] EXCEPT ![prop] = value]]
SetItemProp(list, index, prop, value) ==
    IF index \in 0..(Len(list) - 1)
    THEN [list EXCEPT ![index + 1] = [@ EXCEPT ![prop] = value]]
    ELSE list

\* bondLogsHandler.filter((l) => l.id !== log.id)
FilterOut(list, id) == SelectSeq(list, LAMBDA l : l.id # id)

HasId(list, id) == \E i \in 1..Len(list) : list[i].id = id

\* the list while bondRepo.save is awaited: append runs on its result only
WhileCreatingAppend(list, log) == Append(list, log)
WhileCreating(list, log) == list

Op(op, id, prop, value, found) ==
    [op |-> op, id |-> id, prop |-> prop, value |-> value,
     found |-> found, result |-> "ok"]

ListInit ==
    /\ now = 0
    /\ timers = {}
    /\ timeoutId = ClosuresFor(RowIds)
    /\ nextId = 1
    /\ repo = TRUE
    /\ text = [k \in Keys |-> 0]
    /\ calls = <<>>
    /\ writes = <<>>
    /\ \E n \in 0..MaxRows :
          /\ bondLogs = [i \in 1..n |-> NewLog(i)]
          /\ db = 1..n
          /\ nextRowId = n + 1
    /\ pendingAdd = {}
    /\ removedPending = {}
    /\ lastOp = Op("none", 0, "none", 0, FALSE)
    /\ opCount = 0

\* saveBondLog(log, patch): the debounced save of the record's identity
SaveBondLog(id, patch) ==
    /\ timers' = Debounced(timers, timeoutId[id], nextId, id, patch, now + W)
    /\ timeoutId' = [timeoutId EXCEPT ![id] = nextId]
    /\ nextId' = nextId + 1

\* the records a handler can be called with: the rows shown, or a record
\* that is no longer in the list
LogInputs ==
    {bondLogs[i] : i \in 1..Len(bondLogs)}
        \cup {NewLog(id) : id \in {x \in 1..(nextRowId - 1) :
                                      ~HasId(bondLogs, x) /\ x \notin pendingAdd}}

\* dataTableConfig.edit
Edit(log, prop, value) ==
    /\ opCount < MaxOps
    /\ NoneDue
    /\ LET index == IndexOf(bondLogs, log)
       IN /\ bondLogs' = SetItemProp(bondLogs, index, prop, value)
          /\ SaveBondLog(log.id, [prop |-> prop, value |-> value])
          /\ lastOp' = Op("edit", log.id, prop, value, index >= 0)
    /\ opCount' = opCount + 1
    /\ UNCHANGED <<now, repo, text, calls, writes, db, pendingAdd, nextRowId, removedPending>>

\* dataTableConfig.remove
Remove(log) ==
    /\ opCount < MaxOps
    /\ NoneDue
    /\ bondLogs' = FilterOut(bondLogs, log.id)
    /\ db' = db \ {log.id}
    /\ removedPending' = removedPending \cup
            (IF PendingOf(log.id) # {} THEN {log.id} ELSE {})
    /\ lastOp' = Op("remove", log.id, "none", 0, HasId(bondLogs, log.id))
    /\ opCount' = opCount + 1
    /\ UNCHANGED <<debVars, pendingAdd, nextRowId>>

\* dataTableConfig.add, up to the await: bondRepo.save is issued
AddIssue ==
    /\ opCount < MaxOps
    /\ NoneDue
    /\ pendingAdd' = pendingAdd \cup {nextRowId}
    /\ nextRowId' = nextRowId + 1
    /\ bondLogs' = WhileCreating(bondLogs, NewLog(nextRowId))
    /\ lastOp' = Op("add", nextRowId, "none", 0, FALSE)
    /\ opCount' = opCount + 1
    /\ UNCHANGED <<debVars, db, removedPending>>

\* dataTableConfig.add, after the await: the saved record is appended
AddResolve(id) ==
    /\ id \in pendingAdd
    /\ pendingAdd' = pendingAdd \ {id}
    /\ db' = db \cup {id}
    /\ bondLogs' = Append(bondLogs, NewLog(id))
    /\ lastOp' = Op("created", id, "none", 0, FALSE)
    /\ UNCHANGED <<debVars, nextRowId, removedPending, opCount>>

\* dataTableConfig.add, the save rejects: add rejects, nothing is appended
AddReject(id) ==
    /\ id \in pendingAdd
    /\ pendingAdd' = pendingAdd \ {id}
    /\ lastOp' = Op("createFailed", id, "none", 0, FALSE)
    /\ UNCHANGED <<debVars, bondLogs, db, nextRowId, removedPending, opCount>>

\* the timer callback of the debounced save: the patch is saved to the store
FlushSave(t) ==
    /\ t \in timers
    /\ Due(t)
    /\ timers' = timers \ {t}
    /\ db' = db \cup {t.key}
    /\ lastOp' = Op("write", t.key, t.args.prop, t.args.value, t.key \in db)
    /\ UNCHANGED <<now, timeoutId, nextId, repo, text, calls, writes,
                   bondLogs, pendingAdd, nextRowId, removedPending, opCount>>

InitList == ListInit /\ FindIdle

NextList ==
    \/ (\E log \in LogInputs, prop \in Props, value \in FieldVals :
            Edit(log, prop, value)) /\ UNCHANGED findVars
    \/ (\E log \in LogInputs : Remove(log)) /\ UNCHANGED findVars
    \/ AddIssue /\ UNCHANGED findVars
    \/ (\E id \in pendingAdd : AddResolve(id)) /\ UNCHANGED findVars
    \/ (\E id \in pendingAdd : AddReject(id)) /\ UNCHANGED findVars
    \/ (\E t \in timers : FlushSave(t)) /\ UNCHANGED findVars
    \/ Tick /\ UNCHANGED <<listVars, findVars>>

SpecList == InitList /\ [][NextList]_vars

(* ---------------------- properties of the bond page ------------------- *)
\* C3: once a record is removed while its debounced save is pending, no
\* save of that record's identity reaches the store.
C3_RemoveCancels ==
    lastOp.op = "write" => lastOp.id \notin removedPending

\* C6: edit of a record of the list sets that record's field in the same
\* step, changes nothing else in the list, performs no store write in that
\* step and leaves the save armed for W later.
C6_EditStep ==
    (opCount' = opCount + 1 /\ lastOp'.op = "edit" /\ lastOp'.found) =>
        /\ \E i \in 1..Len(bondLogs) :
              /\ bondLogs[i].id = lastOp'.id
              /\ bondLogs' = [bondLogs EXCEPT ![i] = [@ EXCEPT ![lastOp'.prop] = lastOp'.value]]
        /\ db' = db
        /\ \E t \in timers' :
              /\ t.key = lastOp'.id
              /\ t.args = [prop |-> lastOp'.prop, value |-> lastOp'.value]
              /\ t.due = now + W
C6_EditIsOptimistic == [][C6_EditStep]_vars

C6_Witness ==
    /\ lastOp.op = "edit"
    /\ lastOp.found
    /\ lastOp.prop = "value"
    /\ lastOp.value = 1
    /\ Len(bondLogs) = 2
    /\ bondLogs[2] = [id |-> 2, value |-> 1, pokemon |-> 1]
    /\ bondLogs[1] = NewLog(1)
    /\ PendingOf(2) # {}

C7_AppendState ==
    \A id \in pendingAdd : ~HasId(bondLogs, id)
C7_AppendStep ==
    Len(bondLogs') > Len(bondLogs) =>
        /\ bondLogs' = Append(bondLogs, LastOf(bondLogs'))
        /\ LastOf(bondLogs').id \in pendingAdd
        /\ LastOf(bondLogs').id \notin pendingAdd'
        /\ LastOf(bondLogs').id \in db'
C8_NotFound ==
    (lastOp.op \in {"edit", "remove"} /\ ~lastOp.found) =>
        /\ lastOp.result = "NotFound"
        /\ PendingOf(lastOp.id) = {}

(* ------------------------ findLastIndex (util.ts) --------------------- *)
Items == 0..2

\* the predicate handed to findLastIndex: the item equals the target
Predicate(item, index, array) == item = fl_target

FindInit ==
    /\ fl_array \in UNION {[1..n -> Items] : n \in 0..MaxLen}
    /\ fl_target \in Items
    /\ fl_i = Len(fl_array) - 1
    /\ fl_result = -2
    /\ fl_pc = "loop"

\* for (let i = array.length - 1; i > 0; i--): the loop test
LoopTest(i) == i > 0

FindReturnIndex ==
    /\ fl_pc = "loop"
    /\ LoopTest(fl_i)
    /\ Predicate(fl_array[fl_i + 1], fl_i, fl_array)
    /\ fl_result' = fl_i
    /\ fl_pc' = "done"
    /\ UNCHANGED <<fl_array, fl_target, fl_i>>

FindStep ==
    /\ fl_pc = "loop"
    /\ LoopTest(fl_i)
    /\ ~Predicate(fl_array[fl_i + 1], fl_i, fl_array)
    /\ fl_i' = fl_i - 1
    /\ UNCHANGED <<fl_array, fl_target, fl_result, fl_pc>>

FindReturnNone ==
    /\ fl_pc = "loop"
    /\ ~LoopTest(fl_i)
    /\ fl_result' = -1
    /\ fl_pc' = "done"
    /\ UNCHANGED <<fl_array, fl_target, fl_i>>

InitFind ==
    /\ FindInit
    /\ ListIdle
    /\ now = 0
    /\ timers = {}
    /\ timeoutId = ClosuresFor(Keys)
    /\ nextId = 1
    /\ repo = TRUE
    /\ text = [k \in Keys |-> 0]
    /\ calls = <<>>
    /\ writes = <<>>

NextFind ==
    \/ FindReturnIndex /\ UNCHANGED <<debVars, listVars>>
    \/ FindStep /\ UNCHANGED <<debVars, listVars>>
    \/ FindReturnNone /\ UNCHANGED <<debVars, listVars>>

SpecFind == InitFind /\ [][NextFind]_vars

\* C10: findLastIndex returns the greatest index whose element satisfies the
\* predicate, and -1 exactly when no element does.
Satisfying == {i \in 0..(Len(fl_array) - 1) : Predicate(fl_array[i + 1], i, fl_array)}
C10_FindLastIndex ==
    fl_pc = "done" =>
        IF Satisfying = {} THEN fl_result = -1
        ELSE fl_result \in Satisfying /\ \A i \in Satisfying : i <= fl_result

====
